---- MODULE Spec2Model ----
(***************************************************************************)
(* Model of glmnet/coxdev.py: the right_censored Cox deviance object.      *)
(*                                                                         *)
(* Conventions.                                                            *)
(*  - numpy arrays and pandas columns are TLA+ sequences; the element at   *)
(*    Python position p (0-based) is element p+1 of the sequence. Values   *)
(*    that ARE positions (_order, first_idx, the tie lists, _risk_count)   *)
(*    keep their 0-based Python values and are dereferenced with At.       *)
(*  - real arithmetic is exact. A real that the code obtains by +,-,*,/    *)
(*    is the rational <<num, den>> in lowest terms (den > 0).              *)
(*  - the linear predictor is measured in units of ln 2: the integer k     *)
(*    stands for k*ln(2), so np.exp of it is the exact rational 2^k.       *)
(*    Callers draw predictors whose mean is again an integer.              *)
(*  - a real that the code obtains through np.log is carried as the        *)
(*    rational q whose natural logarithm it is (LogNum): sums of logs are  *)
(*    products, integer multiples are powers. ln is injective, so two      *)
(*    such reals are equal exactly when their LogNums are equal.           *)
(***************************************************************************)
EXTENDS Integers, Sequences, FiniteSets, TLC

\* ------------------------------------------------------------------
\* Bounds of the exploration
\* ------------------------------------------------------------------
\* the largest number of observations of a dataset
MaxN == 3

\* the longest sequence handed to _fid directly
MaxLen == 3

\* the event times of a dataset (two values: ties and strict order)
Times == {1, 2}

\* the statuses of a dataset: censored, event
Statuses == {0, 1}

\* the entries of a linear predictor over n rows are n*j, j in EtaSteps
EtaSteps == {0, 1}

\* the scalars added to a linear predictor
Shifts == {-2, -1, 1, 3}

\* the values of a sequence handed to _fid directly
FidValues == {1, 3, 4}

\* Optional[...] values: None, or Some(v) holding v
None == <<FALSE>>

Some(v) == <<TRUE, v>>

IsNone(x) == ~x[1]

Val(x) == x[2]

\* ------------------------------------------------------------------
\* Exact arithmetic
\* ------------------------------------------------------------------
Abs(x) == IF x < 0 THEN -x ELSE x

RECURSIVE GCD(_, _)
GCD(a, b) == IF b = 0 THEN a ELSE GCD(b, a % b)

RNorm(n, d) ==
    LET g == GCD(Abs(n), Abs(d))
        s == IF d < 0 THEN -1 ELSE 1
    IN  <<(s * n) \div g, (s * d) \div g>>

RInt(k) == <<k, 1>>

\* sums over the least common denominator, products after cross-cancelling
RAdd(p, q) ==
    LET g == GCD(p[2], q[2])
    IN  RNorm(p[1] * (q[2] \div g) + q[1] * (p[2] \div g), (p[2] \div g) * q[2])

RNeg(p) == <<-p[1], p[2]>>

RSub(p, q) == RAdd(p, RNeg(q))

RMul(p, q) ==
    LET a == RNorm(p[1], q[2])
        b == RNorm(q[1], p[2])
    IN  RNorm(a[1] * b[1], a[2] * b[2])

RDiv(p, q) == RMul(p, <<q[2], q[1]>>)

RECURSIVE RPow(_, _)
RPow(p, k) == IF k = 0 THEN <<1, 1>>
              ELSE IF k < 0 THEN RPow(<<p[2], p[1]>>, -k)
              ELSE RMul(p, RPow(p, k - 1))

RECURSIVE SumInt(_)
SumInt(s) == IF s = <<>> THEN 0 ELSE Head(s) + SumInt(Tail(s))

\* np.sum of a sequence of rationals
RECURSIVE RSum(_)
RSum(s) == IF s = <<>> THEN <<0, 1>> ELSE RAdd(Head(s), RSum(Tail(s)))

\* product of a sequence of rationals (a sum of LogNums)
RECURSIVE RProd(_)
RProd(s) == IF s = <<>> THEN <<1, 1>> ELSE RMul(Head(s), RProd(Tail(s)))

\* a function over 1..n, evaluated once into the array it describes
Arr(f) == SubSeq(f, 1, Len(f))

\* arr[p] for a 0-based Python position p
At(arr, p) == arr[p + 1]

\* arr[mask]: the elements at the positions where mask holds, in order
Masked(arr, mask) == SelectSeq([i \in 1..Len(arr) |-> <<arr[i], mask[i]>>],
                               LAMBDA x : x[2])

Select(arr, mask) ==
    LET m == Masked(arr, mask)
    IN  Arr([i \in 1..Len(m) |-> m[i][1]])

\* np.cumsum of an integer sequence
CumSumInt(s) == Arr([i \in 1..Len(s) |-> SumInt(SubSeq(s, 1, i))])

\* np.cumsum of a rational sequence
CumSum(s) == Arr([i \in 1..Len(s) |-> RSum(SubSeq(s, 1, i))])

\* arr[::-1]
Reverse(s) == Arr([i \in 1..Len(s) |-> s[Len(s) + 1 - i]])

\* np.arange(n)
Arange(n) == Arr([i \in 1..n |-> i - 1])

\* the elements of a finite set of integers in ascending order
RECURSIVE SortedSeq(_)
SortedSeq(S) == IF S = {} THEN <<>>
                ELSE LET m == CHOOSE x \in S : \A y \in S : x <= y
                     IN  <<m>> \o SortedSeq(S \ {m})

Range(s) == {s[i] : i \in 1..Len(s)}

\* ------------------------------------------------------------------
\* _fid(times, index): the tie-grouping helper
\* ------------------------------------------------------------------
\* np.unique(times, return_index=True, return_counts=True)
UniqueTimes(times) == SortedSeq(Range(times))

FirstIdx(times) ==
    LET u == UniqueTimes(times)
    IN  [k \in 1..Len(u) |->
            (CHOOSE i \in 1..Len(times) :
                /\ times[i] = u[k]
                /\ \A j \in 1..(i - 1) : times[j] # u[k]) - 1]

Counts(times) ==
    LET u == UniqueTimes(times)
    IN  [k \in 1..Len(u) |-> Cardinality({i \in 1..Len(times) : times[i] = u[k]})]

\* index[np.nonzero(times == t)[0]]
TieMembers(times, index, t) == Select(index, [i \in 1..Len(times) |-> times[i] = t])

FidTies(times, index) ==
    [t \in {UniqueTimes(times)[k] : k \in {k \in 1..Len(UniqueTimes(times)) :
                                            Counts(times)[k] > 1}}
        |-> TieMembers(times, index, t)]

FidFirst(times, index) == [k \in 1..Len(FirstIdx(times)) |-> At(index, FirstIdx(times)[k])]

\* times is a plain list (is_list) or an array; index is None or an array.
\* A list has no .shape, so the default index cannot be built for it.
Fid(times, is_list, index) ==
    IF IsNone(index) /\ is_list
    THEN [raised |-> "AttributeError", first_idx |-> <<>>, ties |-> <<>>]
    ELSE LET idx == IF IsNone(index) THEN Arange(Len(times)) ELSE Val(index)
         IN  [raised |-> "none",
              first_idx |-> FidFirst(times, idx),
              ties |-> FidTies(times, idx)]

\* ------------------------------------------------------------------
\* right_censored.__post_init__
\* ------------------------------------------------------------------
\* sort_values(by=['event_time','status'], ascending=[True, False]): row i
\* (1-based here) precedes row j; equal keys keep their original order.
Before(event_time, status, i, j) ==
    \/ event_time[i] < event_time[j]
    \/ event_time[i] = event_time[j] /\ status[i] > status[j]
    \/ event_time[i] = event_time[j] /\ status[i] = status[j] /\ i < j

\* self._order: the original 0-based index of the row at each sorted position
SortOrder(event_time, status) ==
    LET n == Len(event_time)
        rank(i) == Cardinality({j \in 1..n : Before(event_time, status, j, i)})
    IN  Arr([r \in 1..n |-> (CHOOSE i \in 1..n : rank(i) = r - 1) - 1])

\* column[self._order]: a column or vector taken into sorted order
Reorder(v, order) == Arr([i \in 1..Len(order) |-> At(v, order[i])])

\* arr[positions] = values, positionally
SetAt(arr, positions, values) ==
    Arr([i \in 1..Len(arr) |->
            IF \E k \in 1..Len(positions) : positions[k] = i - 1
            THEN values[CHOOSE k \in 1..Len(positions) : positions[k] = i - 1]
            ELSE arr[i]])

\* arr[positions] = c, for a scalar c
FillAt(arr, positions, c) ==
    Arr([i \in 1..Len(arr) |-> IF (i - 1) \in Range(positions) THEN c ELSE arr[i]])

\* _events = self.data['status'] == 1
EventMask(status) == [i \in 1..Len(status) |-> status[i] = 1]

\* groupby('event_time').sum()['sample_weight'] over the event rows: one sum
\* per distinct event time, in ascending order of the time
WeightSum(event_time, sample_weight, events) ==
    LET t == Select(event_time, events)
        w == Select(sample_weight, events)
        u == UniqueTimes(t)
    IN  Arr([k \in 1..Len(u) |-> SumInt(Select(w, [i \in 1..Len(t) |-> t[i] = u[k]]))])

\* Faulty variant of DerivedWeight: the group's first row keeps its own
\* weight (line 43 left out).
DerivedWeightRaw(sample_weight, first_idx, weight_sum) == sample_weight

DerivedWeight(sample_weight, first_idx, weight_sum) ==
    SetAt(sample_weight, first_idx, weight_sum)

\* - np.sum(_weight_sum * np.log(_weight_sum)) over the positive sums, as a LogNum
LoglikSat(weight_sum) ==
    LET pos == Select(weight_sum, [k \in 1..Len(weight_sum) |-> weight_sum[k] > 0])
    IN  RProd([k \in 1..Len(pos) |-> RPow(RInt(pos[k]), -pos[k])])

\* for v in ties.values(): _derived_events[v] = 0
RECURSIVE ZeroTies(_, _, _)
ZeroTies(arr, ties, keys) ==
    IF keys = {} THEN arr
    ELSE LET t == CHOOSE x \in keys : TRUE
         IN  ZeroTies(FillAt(arr, ties[t], 0), ties, keys \ {t})

\* Faulty variant of DerivedEvents: the other members of a tie are not
\* zeroed (lines 52-53 left out).
DerivedEventsKeepTies(status, first_idx, ties) == FillAt(status, first_idx, 1)

DerivedEvents(status, first_idx, ties) ==
    FillAt(ZeroTies(status, ties, DOMAIN ties), first_idx, 1)

\* The object after __post_init__, or the exception it raises. The
\* 'sample_weight' column exists only when no weights were supplied, and
\* line 41 selects it.
PostInit(event_time, status, sample_weight, strata) ==
    LET n       == Len(event_time)
        order   == SortOrder(event_time, status)
        s_time  == Reorder(event_time, order)
        s_stat  == Reorder(status, order)
        w_col   == IF IsNone(sample_weight) THEN Some([i \in 1..n |-> 1]) ELSE None
        st_col  == IF IsNone(strata) THEN Some([i \in 1..n |-> 1]) ELSE None
        events  == EventMask(s_stat)
        fid     == Fid(Select(s_time, events), FALSE, Some(Select(Arange(n), events)))
        wsum    == WeightSum(s_time, Val(w_col), events)
        dw      == DerivedWeight(Val(w_col), fid.first_idx, wsum)
        de      == DerivedEvents(s_stat, fid.first_idx, fid.ties)
    IN  IF IsNone(w_col)
        THEN [raised |-> "KeyError"]
        ELSE [raised |-> "none",
              _order |-> order,
              _loglik_sat |-> LoglikSat(wsum),
              data |-> [event_time |-> s_time,
                        status |-> s_stat,
                        sample_weight |-> Val(w_col),
                        strata |-> st_col,
                        _derived_weight |-> dw,
                        _derived_events |-> de,
                        _risk_count |-> CumSumInt(de)]]

\* ------------------------------------------------------------------
\* right_censored.__call__
\* ------------------------------------------------------------------
\* linear_predictor[self._order] raises IndexError when a position of _order
\* lies outside the vector
OrderInRange(linear_predictor, order) ==
    \A i \in 1..Len(order) : order[i] < Len(linear_predictor)

\* eta.mean(); the callers' vectors have an integer mean
Mean(eta) == SumInt(eta) \div Len(eta)

\* eta = linear_predictor[self._order]; eta -= eta.mean()
CenteredEta(linear_predictor, order) ==
    LET eta == Reorder(linear_predictor, order)
        m   == Mean(eta)
    IN  Arr([i \in 1..Len(eta) |-> eta[i] - m])

\* Faulty variant of ExpEta: the reordered predictor is exponentiated as
\* passed, not as centred.
ExpEtaUncentered(linear_predictor, order) ==
    LET eta == Reorder(linear_predictor, order)
    IN  Arr([i \in 1..Len(eta) |-> RPow(RInt(2), eta[i])])

\* exp_eta = np.exp(eta)
ExpEta(linear_predictor, order) ==
    LET eta == CenteredEta(linear_predictor, order)
    IN  Arr([i \in 1..Len(eta) |-> RPow(RInt(2), eta[i])])

\* The caller's vector after the call. Indexing with an index array copies,
\* so the in-place centring works on the copy. The faulty variant centres a
\* view of the caller's vector.
CallerVectorAliased(linear_predictor, order) ==
    IF OrderInRange(linear_predictor, order)
    THEN [p \in 1..Len(linear_predictor) |->
            IF (p - 1) \in Range(order)
            THEN linear_predictor[p] - Mean(Reorder(linear_predictor, order))
            ELSE linear_predictor[p]]
    ELSE linear_predictor

CallerVector(linear_predictor, order) == linear_predictor

\* np.cumsum((exp_eta*w)[::-1])[::-1]
RiskDen(exp_eta, w) ==
    Reverse(CumSum(Reverse(Arr([i \in 1..Len(w) |-> RMul(exp_eta[i], RInt(w[i]))]))))

\* np.hstack([0, np.cumsum((_derived_w / rskden**power)[_derived_d == 1])])
RiskDenInv(derived_w, rskden, derived_d, power) ==
    <<RInt(0)>> \o
    CumSum(Select(Arr([i \in 1..Len(rskden) |->
                          RDiv(RInt(derived_w[i]), RPow(rskden[i], power))]),
                  [i \in 1..Len(rskden) |-> derived_d[i] = 1]))

\* table[rskcount] raises IndexError when a count lies outside the table
CountInRange(table, rskcount) ==
    \A i \in 1..Len(rskcount) : rskcount[i] < Len(table)

\* Faulty variant of Unpermute: the sorted vector is read through _order
\* instead of written through it (out = v[self._order]).
UnpermuteGather(v, order) == Arr([p \in 1..Len(v) |-> At(v, order[p])])

\* out = np.empty_like(v); out[self._order] = v
Unpermute(v, order) ==
    Arr([p \in 1..Len(v) |-> v[CHOOSE i \in 1..Len(order) : order[i] = p - 1]])

\* loglik, as a LogNum: np.sum((w*eta)[d > 0]) - np.sum(log_terms)
LogLik(eta, w, d, derived_w, derived_d, rskden) ==
    LET n     == Len(eta)
        lin   == SumInt(Select([i \in 1..n |-> w[i] * eta[i]], [i \in 1..n |-> d[i] > 0]))
        terms == Select(Arr([i \in 1..n |-> RPow(rskden[i], derived_w[i])]),
                        [i \in 1..n |-> derived_d[i] > 0])
    IN  RDiv(RPow(RInt(2), lin), RProd(terms))

\* w * (d - exp_eta * rskdeninv[rskcount]), in sorted order
Grad(w, d, exp_eta, rskdeninv, rskcount) ==
    Arr([i \in 1..Len(w) |->
            RMul(RInt(w[i]),
                 RSub(RInt(d[i]), RMul(exp_eta[i], At(rskdeninv, rskcount[i]))))])

\* w_exp_eta**2 * rskdeninv2[rskcount] - w_exp_eta * rskdeninv[rskcount]
DiagHessian(w, exp_eta, rskdeninv, rskdeninv2, rskcount) ==
    Arr([i \in 1..Len(w) |->
            LET we == RMul(RInt(w[i]), exp_eta[i])
            IN  RSub(RMul(RMul(we, we), At(rskdeninv2, rskcount[i])),
                     RMul(we, At(rskdeninv, rskcount[i])))])

Times2(v) == Arr([i \in 1..Len(v) |-> RMul(RInt(2), v[i])])

Raise(e) == [raised |-> e, deviance |-> None, grad |-> None, diag_hessian |-> None]

\* What the call returns or raises. self is the object PostInit built.
\* deviance = 2*(self._loglik_sat - loglik) is carried as the rational q with
\* deviance = 2*ln(q).
Call(self, linear_predictor, gradient, hessian) ==
    LET order     == self._order
        w         == self.data.sample_weight
        d         == self.data.status
        rskcount  == self.data._risk_count
        derived_w == self.data._derived_weight
        derived_d == self.data._derived_events
        eta       == CenteredEta(linear_predictor, order)
        exp_eta   == ExpEta(linear_predictor, order)
        rskden    == RiskDen(exp_eta, w)
        loglik    == LogLik(eta, w, d, derived_w, derived_d, rskden)
        rskdeninv == RiskDenInv(derived_w, rskden, derived_d, 1)
        rskdeninv2 == RiskDenInv(derived_w, rskden, derived_d, 2)
        grad_cp   == Unpermute(Grad(w, d, exp_eta, rskdeninv, rskcount), order)
        hess_cp   == Unpermute(DiagHessian(w, exp_eta, rskdeninv, rskdeninv2, rskcount),
                               order)
    IN  IF ~OrderInRange(linear_predictor, order) THEN Raise("IndexError")
        ELSE IF (gradient \/ hessian) /\ ~CountInRange(rskdeninv, rskcount)
             THEN Raise("IndexError")
        ELSE IF ~gradient /\ ~hessian THEN Raise("UnboundLocalError")
        ELSE IF ~gradient THEN Raise("TypeError")
        ELSE IF ~hessian THEN Raise("UnboundLocalError")
        ELSE [raised |-> "none",
              deviance |-> RDiv(self._loglik_sat, loglik),
              grad |-> Some(Times2(grad_cp)),
              diag_hessian |-> Some(Times2(hess_cp))]

\* ------------------------------------------------------------------
\* State
\* ------------------------------------------------------------------
VARIABLES
    event_time,         \* constructor argument
    status,             \* constructor argument
    sample_weight,      \* constructor argument, Optional
    strata,             \* constructor argument, Optional
    pc,                 \* where the client program stands
    self,               \* the right_censored object (None before construction)
    built,              \* history: the object as __post_init__ left it
    linear_predictor,   \* the caller's vector
    passed,             \* history: the caller's vector as it was when passed
    gradient,           \* call argument
    hessian,            \* call argument
    result,             \* what the last call returned or raised
    fid_times,          \* argument of a direct _fid call
    fid_is_list,        \* whether fid_times is a plain list
    fid_index,          \* argument of a direct _fid call, Optional
    fid_result          \* what the direct _fid call returned or raised

vars == <<event_time, status, sample_weight, strata, pc, self, built,
          linear_predictor, passed, gradient, hessian, result,
          fid_times, fid_is_list, fid_index, fid_result>>

ctor_args == <<event_time, status, sample_weight, strata>>

fid_vars == <<fid_times, fid_is_list, fid_index, fid_result>>

NoResult == Raise("not called")

NoFid == [raised |-> "not called", first_idx |-> <<>>, ties |-> <<>>]

\* sequences over S of length lo..hi
SeqsOf(S, lo, hi) == UNION {[1..m -> S] : m \in lo..hi}

\* the time column of the module's demo, doubled to stay in the integers
\* (times are only compared): [2,4,3,5,6.5,7,7,7,7]
DemoTime == <<4, 8, 6, 10, 13, 14, 14, 14, 14>>

\* the status column of the demo, and the variants of its four rows at time 7
DemoStatus == <<0, 1, 1, 0, 0, 1, 7, 7, 7>>

DemoStatuses == {<<0, 1, 1, 0, 0>> \o t : t \in [1..4 -> {0, 1, 7}]}

\* the vectors a caller passes to an object over n rows: n-1, n or n+1
\* entries, each a multiple of n (so that every mean is an integer)
Predictors(n) == SeqsOf({n * j : j \in EtaSteps}, n - 1, n + 1)

NoCall ==
    /\ linear_predictor = <<>>
    /\ passed = <<>>
    /\ gradient = TRUE
    /\ hessian = TRUE
    /\ result = NoResult

NoFidCall ==
    /\ fid_times = <<>>
    /\ fid_is_list = FALSE
    /\ fid_index = None
    /\ fid_result = NoFid

\* right_censored(event_time, status) on every dataset of up to MaxN rows
Init ==
    /\ \E n \in 1..MaxN :
          /\ event_time \in [1..n -> Times]
          /\ status \in [1..n -> Statuses]
    /\ sample_weight = None
    /\ strata = None
    /\ pc = "start"
    /\ self = None
    /\ built = None
    /\ NoCall
    /\ NoFidCall

\* rc = right_censored(event_time, status, sample_weight, strata)
Construct ==
    /\ pc = "start"
    /\ LET obj == PostInit(event_time, status, sample_weight, strata)
       IN  IF obj.raised = "none"
           THEN /\ self' = Some(obj)
                /\ built' = Some(obj)
                /\ pc' = "ready"
           ELSE /\ self' = None
                /\ built' = None
                /\ pc' = obj.raised
    /\ UNCHANGED <<ctor_args, linear_predictor, passed, gradient, hessian, result, fid_vars>>

\* the caller chooses the arguments of the next call
Prepare ==
    /\ pc = "ready"
    /\ \E lp \in Predictors(Len(event_time)), g \in BOOLEAN, h \in BOOLEAN :
          /\ linear_predictor' = lp
          /\ passed' = lp
          /\ gradient' = g
          /\ hessian' = h
    /\ UNCHANGED result
    /\ pc' = "calling"
    /\ UNCHANGED <<ctor_args, self, built, fid_vars>>

\* the demo's call: rc(np.ones_like(time)), a constant vector
PrepareOnes ==
    /\ pc = "ready"
    /\ linear_predictor' = [i \in 1..Len(event_time) |-> 1]
    /\ passed' = linear_predictor'
    /\ gradient' = TRUE
    /\ hessian' = TRUE
    /\ UNCHANGED result
    /\ pc' = "calling"
    /\ UNCHANGED <<ctor_args, self, built, fid_vars>>

\* rc(linear_predictor, gradient, hessian): nothing in __call__ assigns to
\* the object or to its columns
Evaluate ==
    /\ pc = "calling"
    /\ result' = Call(Val(self), linear_predictor, gradient, hessian)
    /\ linear_predictor' = CallerVector(linear_predictor, Val(self)._order)
    /\ pc' = "returned"
    /\ UNCHANGED <<ctor_args, self, built, passed, gradient, hessian, fid_vars>>

\* the caller has used the result (or caught the exception) and is ready
\* for the next call on the same object
Consume ==
    /\ pc = "returned"
    /\ linear_predictor' = <<>>
    /\ passed' = <<>>
    /\ gradient' = TRUE
    /\ hessian' = TRUE
    /\ result' = NoResult
    /\ pc' = "ready"
    /\ UNCHANGED <<ctor_args, self, built, fid_vars>>

Next == Construct \/ Prepare \/ Evaluate \/ Consume

Spec == Init /\ [][Next]_vars

\* The module run as a script: the demo's times, the demo's statuses and
\* the variants of the four rows at time 7, no weights, no strata.
InitDemo ==
    /\ event_time = DemoTime
    /\ status \in DemoStatuses
    /\ sample_weight = None
    /\ strata = None
    /\ pc = "start"
    /\ self = None
    /\ built = None
    /\ NoCall
    /\ NoFidCall

NextDemo == Construct \/ PrepareOnes \/ Evaluate \/ Consume

SpecDemo == InitDemo /\ [][NextDemo]_vars

\* Construction with and without the optional arguments sample_weight and
\* strata, followed by the calls of the demo.
InitArgs ==
    /\ \E n \in 1..MaxN :
          /\ event_time \in [1..n -> Times]
          /\ status \in [1..n -> Statuses]
          /\ sample_weight \in {None, Some([i \in 1..n |-> 2]), Some([i \in 1..n |-> i])}
          /\ strata \in {None, Some([i \in 1..n |-> 1])}
    /\ pc = "start"
    /\ self = None
    /\ built = None
    /\ NoCall
    /\ NoFidCall

SpecArgs == InitArgs /\ [][NextDemo]_vars

\* _fid called on its own, as in its doctest
InitFid ==
    /\ fid_times \in SeqsOf(FidValues, 0, MaxLen)
    /\ fid_is_list \in BOOLEAN
    /\ fid_index \in {None, Some(Arange(Len(fid_times))),
                      Some([i \in 1..Len(fid_times) |-> 10 + i])}
    /\ fid_result = NoFid
    /\ event_time = <<>>
    /\ status = <<>>
    /\ sample_weight = None
    /\ strata = None
    /\ pc = "fid"
    /\ self = None
    /\ built = None
    /\ NoCall

FidCall ==
    /\ pc = "fid"
    /\ fid_result' = Fid(fid_times, fid_is_list, fid_index)
    /\ pc' = "fid returned"
    /\ UNCHANGED <<ctor_args, self, built, linear_predictor, passed, gradient, hessian,
                   result, fid_times, fid_is_list, fid_index>>

NextFid == FidCall

SpecFid == InitFid /\ [][NextFid]_vars

\* ------------------------------------------------------------------
\* Properties
\* ------------------------------------------------------------------
N == Len(event_time)

Constructed == pc \in {"ready", "calling", "returned"}

Data == Val(self).data

\* the sorted positions (0-based) of the rows with status 1 and time t
GroupAt(t) == {p \in 0..(N - 1) : At(Data.status, p) = 1 /\ At(Data.event_time, p) = t}

EventTimes == {At(Data.event_time, p) : p \in {q \in 0..(N - 1) : At(Data.status, q) = 1}}

Min(S) == CHOOSE x \in S : \A y \in S : x <= y

SumOver(arr, S) == SumInt([k \in 1..Cardinality(S) |-> At(arr, SortedSeq(S)[k])])

Perms(n) == {p \in [1..n -> 1..n] : \A i, j \in 1..n : p[i] = p[j] => i = j}

\* the permutations exchanging two rows; they generate every permutation
Transpositions(n) ==
    {p \in Perms(n) : Cardinality({i \in 1..n : p[i] # i}) = 2}

\* the row permutations tried on a dataset of n rows: all of them up to
\* three rows, the transpositions beyond (the datasets and the predictors
\* tried are closed under permutation, so these compose to all of them)
RowPermutations(n) == IF n <= 3 THEN Perms(n) ELSE Transpositions(n)

Permuted(v, p) == Arr([k \in 1..Len(p) |-> v[p[k]]])

\* C1: for every combination of the flags the call returns a result, with
\* deviance present, grad present exactly when gradient is true and
\* diag_hessian present exactly when hessian is true.
C1_FlagsHonoured ==
    (pc = "returned" /\ Len(passed) = N) =>
        /\ result.raised = "none"
        /\ ~IsNone(result.grad) <=> gradient
        /\ ~IsNone(result.diag_hessian) <=> hessian

\* C2: construction with an explicitly supplied sample_weight (or strata)
\* succeeds, and the weight stored at each sorted position is the supplied
\* weight of that observation.
C2_SuppliedWeightsStored ==
    (pc # "start") =>
        /\ Constructed
        /\ ~IsNone(sample_weight) =>
              Data.sample_weight = Reorder(Val(sample_weight), Val(self)._order)

\* C3: a call with a linear_predictor whose length differs from n raises and
\* returns nothing, and leaves the object as construction left it.
C3_WrongLengthRejected ==
    (pc = "returned" /\ Len(passed) # N) =>
        /\ result.raised # "none"
        /\ self = built

C5_PermutationEquivariant ==
    /\ Constructed =>
          /\ Len(Val(self)._order) = N
          /\ Range(Val(self)._order) = 0..(N - 1)
    /\ (pc = "returned" /\ result.raised = "none" /\ Len(passed) = N) =>
          \A p \in RowPermutations(N) :
             LET obj == PostInit(Permuted(event_time, p), Permuted(status, p),
                                 sample_weight, strata)
                 r   == Call(obj, Permuted(passed, p), gradient, hessian)
             IN  /\ r.raised = "none"
                 /\ r.deviance = result.deviance
                 /\ Val(r.grad) = Permuted(Val(result.grad), p)
                 /\ Val(r.diag_hessian) = Permuted(Val(result.diag_hessian), p)

C5_Witness ==
    /\ pc = "returned"
    /\ result.raised = "none"
    /\ N = 3
    /\ Len(passed) = N
    /\ passed[1] # passed[2]
    /\ Val(self)._order = <<2, 0, 1>>
    /\ \E i, j \in 1..N : i < j /\ event_time[i] = event_time[j] /\ status[i] = status[j]

\* C6 as stated: over every tie group (two or more rows with status 1 at
\* one time) the sum of _derived_weight equals the sum of sample_weight.
C6_TieWeightConserved ==
    Constructed =>
        \A t \in EventTimes :
            Cardinality(GroupAt(t)) >= 2 =>
                SumOver(Data._derived_weight, GroupAt(t))
                    = SumOver(Data.sample_weight, GroupAt(t))

\* C6 as amended: the first sorted position of every tie group holds the sum
\* of the group's sample weights, and every other member keeps its own
\* sample weight.
C6_FirstPositionHoldsGroupWeight ==
    Constructed =>
        \A t \in EventTimes :
            /\ At(Data._derived_weight, Min(GroupAt(t)))
                  = SumOver(Data.sample_weight, GroupAt(t))
            /\ \A p \in GroupAt(t) \ {Min(GroupAt(t))} :
                  At(Data._derived_weight, p) = At(Data.sample_weight, p)

C6_Witness ==
    /\ pc = "ready"
    /\ N = 3
    /\ GroupAt(At(Data.event_time, 0)) = {0, 1, 2}
    /\ Data._derived_weight = <<3, 1, 1>>

\* C7: on the demo's times, with the statuses [0,1,1,0,0,1,1,1,1] and with
\* the demo's own [0,1,1,0,0,1,7,7,7], the four rows at time 7 become one
\* derived event at the earliest of their sorted positions (position 5) with
\* derived weight 4, and the call with the all-ones vector returns a result.
C7_DemoAggregatesAndEvaluates ==
    (pc = "returned" /\ status \in {<<0, 1, 1, 0, 0, 1, 1, 1, 1>>, DemoStatus}) =>
        /\ At(Data._derived_events, 5) = 1
        /\ At(Data._derived_weight, 5) = 4
        /\ \A p \in 6..8 : At(Data._derived_events, p) = 0
        /\ result.raised = "none"

\* C8: a call with linear_predictor + c gives the same deviance and the
\* same gradient as the call with linear_predictor, for every scalar c.
C8_ShiftInvariant ==
    (pc = "returned" /\ Len(passed) = N) =>
        \A c \in Shifts :
            LET r == Call(Val(self), [i \in 1..N |-> passed[i] + c], gradient, hessian)
            IN  /\ r.raised = result.raised
                /\ r.deviance = result.deviance
                /\ r.grad = result.grad

C8_Witness ==
    /\ pc = "returned"
    /\ result.raised = "none"
    /\ Len(passed) = N
    /\ \E i, j \in 1..N : passed[i] # passed[j]
    /\ EventTimes # {}

\* C9: with statuses 0 or 1, _derived_events is 1 exactly at the first
\* sorted position among the status-1 rows of each distinct event time and 0
\* elsewhere; _risk_count is non-decreasing, counts the distinct event times
\* at or before each position, never exceeds their number, and no lookup
\* by _risk_count leaves the table.
C9_DerivedEventsAndRiskCount ==
    (Constructed /\ Range(status) \subseteq {0, 1}) =>
        /\ \A p \in 0..(N - 1) :
              At(Data._derived_events, p) =
                 IF \E t \in EventTimes : p = Min(GroupAt(t)) THEN 1 ELSE 0
        /\ \A p \in 0..(N - 1) :
              /\ At(Data._risk_count, p) =
                    Cardinality({t \in EventTimes : Min(GroupAt(t)) <= p})
              /\ At(Data._risk_count, p) <= Cardinality(EventTimes)
              /\ p > 0 => At(Data._risk_count, p - 1) <= At(Data._risk_count, p)
        /\ (pc = "returned" /\ Len(passed) >= N) => result.raised # "IndexError"

C9_Witness ==
    /\ pc = "returned"
    /\ result.raised = "none"
    /\ N = 3
    /\ Data.status = <<1, 1, 0>>
    /\ Data.event_time = <<1, 1, 1>>
    /\ Data._risk_count = <<1, 1, 1>>

\* C10: _fid returns, for a list or an array and with or without an index,
\* the mapped position of the first occurrence of each distinct value in
\* ascending order of the values, and the mapped positions of every value
\* that occurs twice or more.
C10_FidContract ==
    (pc = "fid returned") =>
        LET index == IF IsNone(fid_index) THEN Arange(Len(fid_times)) ELSE Val(fid_index)
            occ(v) == {i \in 1..Len(fid_times) : fid_times[i] = v}
            vals == SortedSeq(Range(fid_times))
        IN  /\ fid_result.raised = "none"
            /\ fid_result.first_idx = [k \in 1..Len(vals) |-> index[Min(occ(vals[k]))]]
            /\ DOMAIN fid_result.ties = {v \in Range(fid_times) : Cardinality(occ(v)) >= 2}
            /\ \A v \in DOMAIN fid_result.ties :
                  fid_result.ties[v] =
                     [k \in 1..Cardinality(occ(v)) |-> index[SortedSeq(occ(v))[k]]]

====
